---------------------------- MODULE Spec2Model ----------------------------
(***************************************************************************)
(* Control-channel server of scrappy-dictation                             *)
(* (src/websocket_dictation_fixed.py): FixedDictationServer, its health    *)
(* monitor, and the hotkey side of WebSocketDictationController.           *)
(*                                                                         *)
(* Everything on the asyncio event loop runs one coroutine at a time, so   *)
(* an action is the code between two suspension points (await).  A step of *)
(* a handler that touches only its own connection before it reaches shared *)
(* state is joined to the step that follows it.                            *)
(***************************************************************************)
EXTENDS Integers, Sequences, FiniteSets, TLC

\* Number of connections the server accepts in a run.
NumConns == 2

Conns == 1..NumConns

\* Number of transcripts handed to the controller in a run.
MaxTranscripts == 2

\* The coroutines that call send_command: the health monitor task and the
\* coroutine scheduled by on_key_press.
HotkeySlots == {"hk1"}

\* Two activations of the hotkey whose coroutines may overlap.
OverlapSlots == {"hk1", "hk2"}

Callers == {"mon"} \cup OverlapSlots

None == "None"

(***************************************************************************)
(* Messages.  A received frame is malformed JSON, JSON that is not an      *)
(* object, or an object; of an object only the keys the code reads are     *)
(* kept: type, token and text (has_text: the key is present).              *)
(***************************************************************************)
session_token == "tok_session"
Tokens == {session_token, "tok_other"}

WS == " "
Texts == { <<>>, <<WS, WS>>, <<WS, "a", WS, "b", WS>>, <<"c">> }

Obj(type, token, has_text, text) ==
    [kind |-> "object", type |-> type, token |-> token,
     has_text |-> has_text, text |-> text]

Malformed == [kind |-> "malformed", type |-> None, token |-> None,
              has_text |-> FALSE, text |-> <<>>]
NonObject == [kind |-> "nonobject", type |-> None, token |-> None,
              has_text |-> FALSE, text |-> <<>>]
NoMsg == [kind |-> "none", type |-> None, token |-> None,
          has_text |-> FALSE, text |-> <<>>]

\* What a client may send as the first frame of a connection.
FirstMsgs ==
    {Malformed, NonObject}
    \cup { Obj(ty, tk, FALSE, <<>>) :
             ty \in {"AUTH", "READY", None}, tk \in Tokens \cup {None} }

\* What a client may send afterwards.
LoopMsgs ==
    {Malformed, NonObject}
    \cup { Obj(ty, None, FALSE, <<>>) : ty \in {"READY", "PONG", "TRANSCRIPT_READY", "BOGUS"} }
    \cup { Obj("TRANSCRIPT_READY", None, TRUE, t) : t \in Texts }

\* dict.get(key): the value, or None when the key is absent.
Get(m, key) == m[key]

\* str.strip(): leading and trailing whitespace removed.
RECURSIVE LStrip(_)
LStrip(s) == IF s = <<>> THEN s
             ELSE IF Head(s) = WS THEN LStrip(Tail(s)) ELSE s

RECURSIVE RStrip(_)
RStrip(s) == IF s = <<>> THEN s
             ELSE IF s[Len(s)] = WS THEN RStrip(SubSeq(s, 1, Len(s) - 1)) ELSE s

\* Faulty variants of Strip: only the leading whitespace is removed; nothing
\* is removed.
StripLeadingOnly(s) == LStrip(s)

StripNothing(s) == s

Strip(s) == RStrip(LStrip(s))

\* Python's bool is an int: False == 0, True == 1.
PyBool(b) == IF b THEN 1 ELSE 0

VARIABLES
    connected_clients,  \* FixedDictationServer.connected_clients
    ping_task,          \* FixedDictationServer.ping_task: None or the task
    hpc,                \* per connection: the await its websocket_handler is suspended at, or how it ended
    alive,              \* per connection: the transport still accepts sends
    first_ok,           \* per connection: its first frame was AUTH with the session token
    closed_by_handler,  \* per connection: the handler called websocket.close()
    auth_reply,         \* per connection: the handshake reply it was sent, or None
    who,                \* per connection: "tab" (given the bootstrap URL) or "outsider"
    leaked,             \* an outsider has been sent the session token
    mpc,                \* health_monitor_loop: "none", "sleep", "send" or "ended"
    bc,                 \* per caller: the send_command invocation in progress
    is_listening,       \* WebSocketDictationController.is_listening
    tab_launched,       \* WebSocketDictationController.tab_launched
    cpc,                \* per hotkey coroutine: "idle", "start" or "stop" (awaiting its send_command)
    threads,            \* the running handle_transcript threads, in the order they were started
    clipboard,          \* what the system clipboard holds
    pasted,             \* what Cmd+V has pasted into the active application, in order
    started,            \* number of handle_transcript threads started so far
    cancelled,          \* the monitor tasks that were cancelled and have not ended
    request,            \* RestrictedHTTPHandler: the GET request, or NoRequest
    response,           \* RestrictedHTTPHandler: what do_GET answered, or NoResponse
    heard,              \* per connection: the last of START_LISTENING and STOP_LISTENING sent to it, or None
    archive,            \* the controller of archive/websocket_dictation.py, its timeout monitors and the time
    ev                  \* what the last step read and emitted, if it did (else NoEv)

\* The controller's side of a transcript: its threads and what they act on.
collab == <<threads, clipboard, pasted, started>>

vars == <<connected_clients, ping_task, hpc, alive, first_ok, closed_by_handler,
          auth_reply, who, leaked, mpc, bc, is_listening, tab_launched, cpc,
          threads, clipboard, pasted, started, cancelled, request, response, heard,
          archive, ev>>

\* What the clipboard holds before any transcript arrives.
InitialClipboard == <<"o">>

NoText == <<"<none>">>

\* archive/websocket_dictation.py: asyncio.sleep(30) of dictation_timeout_monitor.
Timeout == 30

\* Time is followed in steps of a third of the timeout, up to MaxTime.
ClockStep == Timeout \div 3

MaxTime == 60

\* Dictation sessions of the archive controller that are followed.
MaxSessions == 3

\* The archive controller after construction: not listening, no session
\* started yet, no timeout monitor, no start_dictation suspended in send_command
\* (starting: the sessions whose start is).
ArchiveIdle ==
    [is_listening |-> FALSE, session |-> 0, starting |-> {}, monitors |-> {}, now |-> 0]

\* No GET request is being answered.
NoRequest == [path |-> <<>>, file_present |-> FALSE, handler |-> None]

\* The request has not been answered.
NoResponse == [status |-> 0, headers |-> {}, body |-> None]

NoEv == [op |-> "Init", conn |-> 0, caller |-> None, msg |-> NoMsg, up |-> TRUE,
         out |-> <<>>, fwd |-> NoText, cmd |-> None,
         snap |-> {}, att |-> [c \in Conns |-> 0], failed |-> {},
         count |-> 0, ret |-> -1, launches |-> 0, saved |-> NoText]

IdleBc == [active |-> FALSE, cmd |-> None, todo |-> {}, disconnected |-> {},
           sent_count |-> 0, snap |-> {}, att |-> [c \in Conns |-> 0]]

TypeOK ==
    /\ connected_clients \subseteq Conns
    /\ ping_task \in {None, "Task"}
    /\ hpc \in [Conns -> {"absent", "auth_recv", "auth_failed_send", "auth_close",
                          "auth_success_send", "loop", "ack_send", "rejected", "raised",
                          "closed"}]
    /\ alive \in [Conns -> BOOLEAN]
    /\ first_ok \in [Conns -> BOOLEAN]
    /\ closed_by_handler \in [Conns -> BOOLEAN]
    /\ auth_reply \in [Conns -> {None, "AUTH_SUCCESS", "AUTH_FAILED"}]
    /\ who \in [Conns -> {"tab", "outsider"}]
    /\ leaked \in BOOLEAN
    /\ mpc \in {"none", "sleep", "send", "ended"}
    /\ DOMAIN bc = Callers
    /\ is_listening \in BOOLEAN
    /\ tab_launched \in BOOLEAN
    /\ cpc \in [OverlapSlots -> {"idle", "start", "stop"}]
    /\ started \in 0..MaxTranscripts
    /\ Len(threads) <= started
    /\ Len(pasted) <= started
    /\ cancelled \subseteq [at : {"sleep", "send"}, pending : BOOLEAN]
    /\ request.file_present \in BOOLEAN
    /\ heard \in [Conns -> {None, "START_LISTENING", "STOP_LISTENING"}]
    /\ archive.is_listening \in BOOLEAN
    /\ archive.session \in 0..MaxSessions
    /\ archive.starting \subseteq 1..MaxSessions
    /\ archive.now \in 0..MaxTime
    /\ response.status \in {0, 200, 404}


Ev(op, c, k) == [NoEv EXCEPT !.op = op, !.conn = c, !.caller = k]

\* The frames the server sends.  AUTH_FAILED carries the current token.
AuthFailedFrame == [type |-> "AUTH_FAILED", current_token |-> session_token]
Frame(type) == [type |-> type, current_token |-> None]

\* The state of the server and the controller after construction.
InitChannel ==
    /\ connected_clients = {}
    /\ ping_task = None
    /\ hpc = [c \in Conns |-> "absent"]
    /\ alive = [c \in Conns |-> TRUE]
    /\ first_ok = [c \in Conns |-> FALSE]
    /\ closed_by_handler = [c \in Conns |-> FALSE]
    /\ auth_reply = [c \in Conns |-> None]
    /\ who = [c \in Conns |-> "tab"]
    /\ leaked = FALSE
    /\ mpc = "none"
    /\ bc = [k \in Callers |-> IdleBc]
    /\ is_listening = FALSE
    /\ tab_launched \in BOOLEAN   \* start_system's launch succeeded or raised
    /\ cpc = [h \in OverlapSlots |-> "idle"]
    /\ threads = <<>>
    /\ clipboard = InitialClipboard
    /\ pasted = <<>>
    /\ started = 0
    /\ cancelled = {}
    /\ heard = [c \in Conns |-> None]
    /\ archive = ArchiveIdle
    /\ ev = NoEv

Init ==
    /\ InitChannel
    /\ request = NoRequest
    /\ response = NoResponse

(***************************************************************************)
(* Health monitor task handle.                                             *)
(***************************************************************************)
\* start_health_monitoring: create the task unless one is referenced.
StartHealthMonitoring ==
    IF ping_task = None
    THEN ping_task' = "Task" /\ mpc' = "sleep"
    ELSE UNCHANGED <<ping_task, mpc>>

\* Faulty variant of StopHealthMonitoring: the task is cancelled but ping_task
\* keeps referring to it.
StopHealthMonitoringNoReset ==
    IF ping_task # None
    THEN /\ mpc' = "none"
         /\ bc' = [bc EXCEPT !["mon"] = IdleBc]
         /\ cancelled' = IF mpc \in {"sleep", "send"}
                          THEN cancelled \cup {[at |-> mpc, pending |-> TRUE]}
                          ELSE cancelled
         /\ UNCHANGED ping_task
    ELSE UNCHANGED <<ping_task, mpc, bc, cancelled>>

\* stop_health_monitoring: cancel the referenced task and forget it.  The
\* cancelled task has not run yet: it is kept in cancelled, with the await it
\* is suspended at (the sleep, or a send of its PING broadcast), until the
\* event loop resumes it with CancelledError (CancelledTaskRuns).  mpc and
\* bc["mon"] follow the task ping_task refers to, so they are reset.
StopHealthMonitoring ==
    IF ping_task # None
    THEN /\ ping_task' = None
         /\ mpc' = "none"
         /\ bc' = [bc EXCEPT !["mon"] = IdleBc]
         /\ cancelled' = IF mpc \in {"sleep", "send"}
                          THEN cancelled \cup {[at |-> mpc, pending |-> TRUE]}
                          ELSE cancelled   \* cancel() of a task that is done
    ELSE UNCHANGED <<ping_task, mpc, bc, cancelled>>

(***************************************************************************)
(* websocket_handler: the handshake.                                       *)
(***************************************************************************)
\* Faulty variants of AuthOK: one half of the test is left out.
AuthOKTypeOnly(m) == Get(m, "type") = "AUTH"

AuthOKTokenOnly(m) == Get(m, "token") = session_token

\* The test of line 90, negated: the frame authenticates.
AuthOK(m) == Get(m, "type") = "AUTH" /\ Get(m, "token") = session_token

\* The except clause of line 105 names asyncio.TimeoutExpired, which asyncio
\* does not have: matching any exception against it raises AttributeError,
\* so the clause's body (close, return) never runs and the handler ends by
\* that exception.
AuthExcept == [pc |-> "raised", out |-> <<>>, close |-> FALSE, register |-> FALSE]

\* Faulty variant of AuthOutcome: the rejection sends AUTH_FAILED and falls through
\* to the registration (no close, no return).
AuthOutcomeNoReturn(m, up) ==
    IF m.kind # "object" THEN AuthExcept
    ELSE IF ~up THEN AuthExcept
    ELSE IF ~AuthOK(m)
    THEN [pc |-> "loop", out |-> <<AuthFailedFrame>>, close |-> FALSE, register |-> TRUE]
    ELSE [pc |-> "loop", out |-> <<Frame("AUTH_SUCCESS")>>,
          close |-> FALSE, register |-> TRUE]

\* What the handshake does with first frame m; up: the transport still
\* accepts the reply.
AuthOutcome(m, up) ==
    IF m.kind = "malformed" THEN AuthExcept          \* json.loads raises
    ELSE IF m.kind = "nonobject" THEN AuthExcept     \* no .get on it
    ELSE IF ~AuthOK(m)
    THEN IF up
         THEN [pc |-> "rejected", out |-> <<AuthFailedFrame>>,
               close |-> TRUE, register |-> FALSE]
         ELSE AuthExcept                             \* send raises ConnectionClosed
    ELSE IF up
         THEN [pc |-> "loop", out |-> <<Frame("AUTH_SUCCESS")>>,
               close |-> FALSE, register |-> TRUE]
         ELSE AuthExcept

\* A connection is accepted and its handler awaits the first frame.
\* Connections are numbered in the order they arrive.
Connect(c, w) ==
    /\ hpc[c] = "absent"
    /\ \A d \in 1..(c - 1) : hpc[d] # "absent"
    /\ hpc' = [hpc EXCEPT ![c] = "auth_recv"]
    /\ who' = [who EXCEPT ![c] = w]
    /\ ev' = NoEv
    /\ UNCHANGED collab
    /\ UNCHANGED <<cancelled, request, response, heard, archive>>
    /\ UNCHANGED <<connected_clients, ping_task, alive, first_ok, closed_by_handler,
                   auth_reply, leaked, mpc, bc, is_listening, tab_launched, cpc>>

\* Where the handler is suspended once it has acted on the first frame: in
\* the send of AUTH_FAILED (line 92), in the send of AUTH_SUCCESS (line 102),
\* or nowhere, an exception having ended it.
AfterFirstFrame(o) ==
    IF o.pc = "loop" THEN "auth_success_send"
    ELSE IF o.pc = "rejected" THEN "auth_failed_send"
    ELSE o.pc

\* The first frame arrives (drop: the client goes away right after sending
\* it): lines 87-92 or 87-102, up to the await of the reply's send.  A send on
\* a transport that is gone raises at once.  A handler that ends leaves a
\* closed transport behind.  An outsider can present the session token only
\* once it was told it.
AuthMessage(c, m, drop) ==
    /\ hpc[c] = "auth_recv"
    /\ alive[c]
    /\ (who[c] = "outsider" /\ m.token = session_token) => leaked
    /\ LET o == AuthOutcome(m, ~drop) IN
       /\ hpc' = [hpc EXCEPT ![c] = AfterFirstFrame(o)]
       /\ alive' = [alive EXCEPT ![c] = o.pc # "raised"]
       /\ first_ok' = [first_ok EXCEPT ![c] =
                          m.kind = "object" /\ m.type = "AUTH" /\ m.token = session_token]
       /\ auth_reply' = [auth_reply EXCEPT ![c] =
                            IF o.out = <<>> THEN None ELSE o.out[1].type]
       /\ leaked' = (leaked \/ (who[c] = "outsider" /\
                        \E i \in 1..Len(o.out) : o.out[i].current_token = session_token))
       /\ ev' = [Ev("AuthMessage", c, None) EXCEPT !.msg = m, !.out = o.out, !.up = ~drop]
    /\ UNCHANGED collab
    /\ UNCHANGED <<cancelled, request, response, heard, archive>>
    /\ UNCHANGED <<connected_clients, ping_task, closed_by_handler, who, mpc, bc,
                   is_listening, tab_launched, cpc>>

\* The await of the handshake reply's send ends.  If the client went away
\* while the handler was suspended in it, the send raises ConnectionClosed
\* inside the try of lines 85-108 and the handler ends as in AuthExcept.
\* Otherwise it returns: after AUTH_FAILED the handler calls
\* websocket.close() and awaits it (line 98); after AUTH_SUCCESS it registers
\* the connection, starts the health monitor and enters the message loop
\* (lines 102-117).
AuthReplySent(c) ==
    /\ hpc[c] \in {"auth_failed_send", "auth_success_send"}
    /\ IF ~alive[c]
       THEN /\ hpc' = [hpc EXCEPT ![c] = AuthExcept.pc]
            /\ UNCHANGED <<closed_by_handler, connected_clients, ping_task, mpc>>
       ELSE IF hpc[c] = "auth_failed_send"
       THEN /\ hpc' = [hpc EXCEPT ![c] = "auth_close"]
            /\ closed_by_handler' = [closed_by_handler EXCEPT ![c] = TRUE]
            /\ UNCHANGED <<connected_clients, ping_task, mpc>>
       ELSE /\ hpc' = [hpc EXCEPT ![c] = "loop"]
            /\ connected_clients' = connected_clients \cup {c}
            /\ StartHealthMonitoring
            /\ UNCHANGED closed_by_handler
    /\ ev' = Ev("AuthReplySent", c, None)
    /\ UNCHANGED collab
    /\ UNCHANGED <<cancelled, request, response, heard, archive>>
    /\ UNCHANGED <<alive, first_ok, auth_reply, who, leaked, bc, is_listening,
                   tab_launched, cpc>>

\* websocket.close() of line 98 returns, and the handler returns (line 100).
AuthCloseDone(c) ==
    /\ hpc[c] = "auth_close"
    /\ hpc' = [hpc EXCEPT ![c] = "rejected"]
    /\ alive' = [alive EXCEPT ![c] = FALSE]
    /\ ev' = Ev("AuthCloseDone", c, None)
    /\ UNCHANGED collab
    /\ UNCHANGED <<cancelled, request, response, heard, archive>>
    /\ UNCHANGED <<connected_clients, ping_task, first_ok, closed_by_handler, auth_reply,
                   who, leaked, mpc, bc, is_listening, tab_launched, cpc>>

\* The handshake ends by an exception of recv: "AuthTimeout", no frame within
\* the 10 s of wait_for (TimeoutError), or "AuthClosed", the client went away
\* before sending anything (ConnectionClosed).  Either goes to the except
\* clause.  Once the handler has ended the library closes the transport.
AuthRecvRaises(c, why) ==
    /\ hpc[c] = "auth_recv"
    /\ hpc' = [hpc EXCEPT ![c] = AuthExcept.pc]
    /\ alive' = [alive EXCEPT ![c] = FALSE]
    /\ closed_by_handler' = [closed_by_handler EXCEPT ![c] = AuthExcept.close]
    /\ ev' = Ev(why, c, None)
    /\ UNCHANGED collab
    /\ UNCHANGED <<cancelled, request, response, heard, archive>>
    /\ UNCHANGED <<connected_clients, ping_task, first_ok, auth_reply, who, leaked,
                   mpc, bc, is_listening, tab_launched, cpc>>

\* The client closes its end, or the transport fails, while the handler is
\* in its message loop or suspended in a send.
ClientDrop(c) ==
    /\ hpc[c] \in {"auth_failed_send", "auth_success_send", "loop", "ack_send"}
    /\ alive[c]
    /\ alive' = [alive EXCEPT ![c] = FALSE]
    /\ ev' = NoEv
    /\ UNCHANGED collab
    /\ UNCHANGED <<cancelled, request, response, heard, archive>>
    /\ UNCHANGED <<connected_clients, ping_task, hpc, first_ok, closed_by_handler,
                   auth_reply, who, leaked, mpc, bc, is_listening, tab_launched, cpc>>

(***************************************************************************)
(* websocket_handler: the message loop, and handle_message.                *)
(***************************************************************************)
\* Faulty variant of HandleMessage: READY is not answered.
HandleMessageNoAck(m, up) ==
    IF m.kind # "object" THEN [out |-> <<>>, fwd |-> NoText]
    ELSE IF Get(m, "type") = "TRANSCRIPT_READY"
    THEN LET transcript == Strip(IF m.has_text THEN m.text ELSE <<>>)
         IN  [out |-> <<>>, fwd |-> IF transcript # <<>> THEN transcript ELSE NoText]
    ELSE [out |-> <<>>, fwd |-> NoText]

\* Faulty variant of HandleMessage: every object that is not a transcript is
\* acknowledged.
HandleMessageAckAll(m, up) ==
    IF m.kind # "object" THEN [out |-> <<>>, fwd |-> NoText]
    ELSE IF Get(m, "type") = "TRANSCRIPT_READY"
    THEN LET transcript == Strip(IF m.has_text THEN m.text ELSE <<>>)
         IN  [out |-> <<>>, fwd |-> IF transcript # <<>> THEN transcript ELSE NoText]
    ELSE [out |-> IF up THEN <<Frame("ACKNOWLEDGE")>> ELSE <<>>, fwd |-> NoText]

\* handle_message on frame m: the frames it sends back and the transcript
\* it hands to the controller (NoText: none).  An exception (malformed
\* JSON, no .get, a send that raises) is caught in the loop and logged.
HandleMessage(m, up) ==
    IF m.kind # "object" THEN [out |-> <<>>, fwd |-> NoText]
    ELSE IF Get(m, "type") = "READY"
    THEN [out |-> IF up THEN <<Frame("ACKNOWLEDGE")>> ELSE <<>>, fwd |-> NoText]
    ELSE IF Get(m, "type") = "TRANSCRIPT_READY"
    THEN LET transcript == Strip(IF m.has_text THEN m.text ELSE <<>>)
         IN  [out |-> <<>>, fwd |-> IF transcript # <<>> THEN transcript ELSE NoText]
    ELSE [out |-> <<>>, fwd |-> NoText]

\* The frames of LoopMsgs that handle_message hands no transcript of to the
\* controller: everything but a TRANSCRIPT_READY whose text is not blank.
UnforwardedMsgs == {m \in LoopMsgs : HandleMessage(m, TRUE).fwd = NoText}

\* Lines 152-156: a daemon thread is started that runs
\* controller.handle_transcript(transcript).
StartThread(c, transcript) ==
    /\ started < MaxTranscripts
    /\ started' = started + 1
    /\ threads' = Append(threads, [arg |-> transcript, pc |-> "copy", conn |-> c])
    /\ UNCHANGED <<clipboard, pasted>>

\* Faulty variant of HandleFrame: a frame that is not a JSON object ends the
\* receive loop.
HandleFrameStrict(c, m, drop, rec) ==
    /\ hpc[c] = "loop"
    /\ alive[c]
    /\ alive' = [alive EXCEPT ![c] = ~drop /\ m.kind = "object"]
    /\ ev' = [Ev("LoopMessage", c, None) EXCEPT !.msg = m, !.up = ~drop]
    /\ UNCHANGED collab
    /\ UNCHANGED <<cancelled, request, response, heard, archive>>
    /\ UNCHANGED <<connected_clients, ping_task, hpc, first_ok, closed_by_handler,
                   auth_reply, who, leaked, mpc, bc, is_listening, tab_launched, cpc>>

\* The receive loop hands the next frame of a registered connection to
\* handle_message (drop: the client goes away right after sending it); line
\* 117 tests nothing, so a frame that arrived before the client went away is
\* handled as well.  A READY whose reply the transport takes leaves the
\* handler suspended in the send of ACKNOWLEDGE (line 142).  A transcript
\* that is not blank starts a thread of the controller.  rec: whether ev
\* keeps the frame and what handling it emitted, or only that the connection
\* handled a frame.
HandleFrame(c, m, drop, rec) ==
    /\ hpc[c] = "loop"
    /\ alive[c] \/ drop
    /\ LET up == alive[c] /\ ~drop
           r == HandleMessage(m, up)
       IN
       /\ alive' = [alive EXCEPT ![c] = up]
       /\ hpc' = [hpc EXCEPT ![c] = IF r.out # <<>> THEN "ack_send" ELSE @]
       /\ ev' = IF rec
                THEN [Ev("LoopMessage", c, None) EXCEPT
                         !.msg = m, !.up = up, !.out = r.out, !.fwd = r.fwd]
                ELSE Ev("LoopMessage", c, None)
       /\ IF r.fwd # NoText
          THEN StartThread(c, r.fwd)
          ELSE UNCHANGED collab
    /\ UNCHANGED <<cancelled, request, response, heard, archive>>
    /\ UNCHANGED <<connected_clients, ping_task, first_ok, closed_by_handler,
                   auth_reply, who, leaked, mpc, bc, is_listening, tab_launched, cpc>>

\* The await of the send of ACKNOWLEDGE ends: it returns, or it raises
\* because the client went away meanwhile, which line 123 catches; either
\* way the receive loop goes on.
AckSent(c) ==
    /\ hpc[c] = "ack_send"
    /\ hpc' = [hpc EXCEPT ![c] = "loop"]
    /\ ev' = NoEv
    /\ UNCHANGED collab
    /\ UNCHANGED <<cancelled, request, response, heard, archive>>
    /\ UNCHANGED <<connected_clients, ping_task, alive, first_ok, closed_by_handler,
                   auth_reply, who, leaked, mpc, bc, is_listening, tab_launched, cpc>>

LoopMessage(c, m, drop) == HandleFrame(c, m, drop, FALSE)

LoopMessageObserved(c, m, drop) == HandleFrame(c, m, drop, TRUE)

(***************************************************************************)
(* WebSocketDictationController.handle_transcript, run in its own thread.  *)
(***************************************************************************)
RemoveAt(s, i) == SubSeq(s, 1, i - 1) \o SubSeq(s, i + 1, Len(s))

\* Lines 402-409: an empty transcript returns; otherwise the stripped
\* transcript is copied to the clipboard (copied: pyperclip.copy did not
\* raise; if it raises, the except clause logs and the thread ends).
TranscriptCopy(i, copied) ==
    /\ i \in 1..Len(threads)
    /\ threads[i].pc = "copy"
    /\ LET t == threads[i].arg
           empty == t = <<>> \/ Strip(t) = <<>>
       IN  /\ copied = TRUE \/ ~empty
           /\ clipboard' = IF ~empty /\ copied THEN Strip(t) ELSE clipboard
           /\ threads' = IF ~empty /\ copied
                         THEN [threads EXCEPT ![i].pc = "paste"]
                         ELSE RemoveAt(threads, i)
           /\ ev' = [Ev(IF ~empty /\ copied THEN "TranscriptCopy" ELSE "TranscriptDone",
                        0, None) EXCEPT !.fwd = t]
    /\ UNCHANGED <<pasted, started>>
    /\ UNCHANGED <<cancelled, request, response, heard, archive>>
    /\ UNCHANGED <<connected_clients, ping_task, hpc, alive, first_ok, closed_by_handler,
                   auth_reply, who, leaked, mpc, bc, is_listening, tab_launched, cpc>>

\* Lines 410-414 and paste_to_active_app: after the two sleeps Cmd+V is
\* typed, which pastes what the clipboard holds then (typed: the keyboard
\* controller did not raise), and handle_transcript returns.
TranscriptPaste(i, typed) ==
    /\ i \in 1..Len(threads)
    /\ threads[i].pc = "paste"
    /\ pasted' = IF typed THEN Append(pasted, clipboard) ELSE pasted
    /\ threads' = RemoveAt(threads, i)
    /\ ev' = [Ev("TranscriptDone", 0, None) EXCEPT !.fwd = threads[i].arg]
    /\ UNCHANGED <<clipboard, started>>
    /\ UNCHANGED <<cancelled, request, response, heard, archive>>
    /\ UNCHANGED <<connected_clients, ping_task, hpc, alive, first_ok, closed_by_handler,
                   auth_reply, who, leaked, mpc, bc, is_listening, tab_launched, cpc>>

\* Faulty variant of Discard: the connection is left in the set.
DiscardNothing(cc, c) == cc

\* The finally clause: the set after discarding c.
Discard(cc, c) == cc \ {c}

\* The loop ends (the transport is closed): finally deregisters, and stops
\* the health monitor if nobody is left.
LoopEnd(c) ==
    /\ hpc[c] = "loop"
    /\ ~alive[c]
    /\ hpc' = [hpc EXCEPT ![c] = "closed"]
    /\ connected_clients' = Discard(connected_clients, c)
    /\ IF connected_clients' = {}
       THEN StopHealthMonitoring
       ELSE UNCHANGED <<ping_task, mpc, bc, cancelled>>
    /\ ev' = NoEv
    /\ UNCHANGED collab
    /\ UNCHANGED <<request, response, heard, archive>>
    /\ UNCHANGED <<alive, first_ok, closed_by_handler, auth_reply, who, leaked,
                   is_listening, tab_launched, cpc>>

(***************************************************************************)
(* send_command.  The emptiness test and the snapshot are taken when the   *)
(* caller enters it; every await client.send is a step; the pruning and    *)
(* the return are the step after the last send.                            *)
(***************************************************************************)
\* Lines 172-175: the locals, and the copy of the set the loop iterates.
BeginSend(k, cmd) ==
    bc' = [bc EXCEPT ![k] =
              [active |-> TRUE, cmd |-> cmd, todo |-> connected_clients,
               disconnected |-> {}, sent_count |-> 0,
               snap |-> connected_clients, att |-> [c \in Conns |-> 0]]]

\* Lines 176-183: one iteration, on the client the set's iterator yields.
\* A dictation command whose send returned is what the client heard last.
SendStep(k, c) ==
    /\ bc[k].active
    /\ c \in bc[k].todo
    /\ bc' = [bc EXCEPT ![k].todo = @ \ {c},
                        ![k].att[c] = @ + 1,
                        ![k].sent_count = IF alive[c] THEN @ + 1 ELSE @,
                        ![k].disconnected = IF alive[c] THEN @ ELSE @ \cup {c}]
    /\ heard' = IF alive[c] /\ bc[k].cmd \in {"START_LISTENING", "STOP_LISTENING"}
                 THEN [heard EXCEPT ![c] = bc[k].cmd]
                 ELSE heard
    /\ ev' = NoEv
    /\ UNCHANGED collab
    /\ UNCHANGED <<cancelled, request, response, archive>>
    /\ UNCHANGED <<connected_clients, ping_task, hpc, alive, first_ok, closed_by_handler,
                   auth_reply, who, leaked, mpc, is_listening, tab_launched, cpc>>

\* Faulty variant of Pruned: the failed connections are left in the set.
PrunedNothing(cc, disconnected) == cc

\* Faulty variant of Pruned: removing a connection that is not in the set
\* puts it in.
PrunedToggle(cc, disconnected) == (cc \ disconnected) \cup (disconnected \ cc)

\* Line 185: connected_clients -= disconnected.
Pruned(cc, disconnected) == cc \ disconnected

\* Faulty variant of SendCommandReturn: the count itself is returned.
SendCommandReturnCount(sent_count) == sent_count

\* Line 186: the value send_command returns after the loop.
SendCommandReturn(sent_count) == PyBool(sent_count > 0)

\* Faulty variant of EmptyReturn: an empty set is reported as a delivery.
EmptyReturnTrue == PyBool(TRUE)

\* Line 162: the value it returns when the set is empty.
EmptyReturn == PyBool(FALSE)

\* What ev records of a send_command that returned.
Returned(op, k, b, ret) ==
    [Ev(op, 0, k) EXCEPT !.cmd = b.cmd, !.snap = b.snap, !.att = b.att,
                         !.failed = b.disconnected, !.count = b.sent_count,
                         !.ret = ret]

(***************************************************************************)
(* health_monitor_loop.                                                    *)
(***************************************************************************)
\* The sleep of 15 s ends; with clients in the set the PING broadcast starts.
MonitorTick ==
    /\ mpc = "sleep"
    /\ IF connected_clients # {}
       THEN /\ mpc' = "send"
            /\ BeginSend("mon", "PING")
       ELSE UNCHANGED <<mpc, bc>>
    /\ ev' = NoEv
    /\ UNCHANGED collab
    /\ UNCHANGED <<cancelled, request, response, heard, archive>>
    /\ UNCHANGED <<connected_clients, ping_task, hpc, alive, first_ok, closed_by_handler,
                   auth_reply, who, leaked, is_listening, tab_launched, cpc>>

\* The PING broadcast returns; if it reached nobody, the set is cleared.
MonitorFinish ==
    /\ mpc = "send"
    /\ bc["mon"].todo = {}
    /\ LET b == bc["mon"]
           success == SendCommandReturn(b.sent_count)
       IN  /\ connected_clients' =
                 IF success = 0 THEN {} ELSE Pruned(connected_clients, b.disconnected)
           /\ ev' = Returned("MonitorFinish", "mon", b, success)
    /\ mpc' = "sleep"
    /\ bc' = [bc EXCEPT !["mon"] = IdleBc]
    /\ UNCHANGED collab
    /\ UNCHANGED <<cancelled, request, response, heard, archive>>
    /\ UNCHANGED <<ping_task, hpc, alive, first_ok, closed_by_handler,
                   auth_reply, who, leaked, is_listening, tab_launched, cpc>>

\* The sleep of 15 s ends with clients in the set, and a statement of the
\* tick raises an exception that is not CancelledError, before the first
\* send (for one, the print of line 237 or of line 170 on a closed or
\* ASCII-only stdout).  The try statement of lines 233-247 encloses the
\* while loop: line 246 catches the exception outside the loop, logs it, and
\* the coroutine returns.  ping_task keeps referring to the finished task.
MonitorTickRaises ==
    /\ mpc = "sleep"
    /\ connected_clients # {}
    /\ mpc' = "ended"
    /\ ev' = [Ev("MonitorTickRaises", 0, "mon") EXCEPT !.cmd = "PING"]
    /\ UNCHANGED collab
    /\ UNCHANGED <<cancelled, request, response, heard, archive>>
    /\ UNCHANGED <<connected_clients, ping_task, hpc, alive, first_ok, closed_by_handler,
                   auth_reply, who, leaked, bc, is_listening, tab_launched, cpc>>

\* Faulty variant of AfterCancel: a CancelledError raised at the send is
\* caught by send_command's `except Exception`, and the loop goes on.
AfterCancelSwallowedAtSend(at) == IF at = "send" THEN "sleep" ELSE "done"

\* Where a monitor task is after CancelledError was raised at the await it
\* was suspended at.  At the sleep, line 244 catches it.  At a send inside
\* send_command, neither except clause of lines 178-183 catches it
\* (CancelledError is not an Exception), so it leaves send_command and the
\* loop, and line 244 catches it.  The task is done either way.
AfterCancel(at) == "done"

\* Faulty variant of CancelledEffect: the CancelledError raised at the send
\* is handled as a failed send of a broadcast that reached nobody, and the
\* set is cleared.
CancelledEffectClears(cc, at) == IF at = "send" THEN {} ELSE cc

\* What the cancelled task leaves of connected_clients when it is resumed:
\* CancelledError leaves send_command before the pruning of line 185 and the
\* loop before the clear of line 243, so the set is as it was.
CancelledEffect(cc, at) == cc

\* The event loop resumes a cancelled monitor task.
CancelledTaskRuns(z) ==
    /\ z \in cancelled
    /\ z.pending
    /\ cancelled' = IF AfterCancel(z.at) = "done"
                     THEN cancelled \ {z}
                     ELSE (cancelled \ {z}) \cup {[at |-> AfterCancel(z.at), pending |-> FALSE]}
    /\ connected_clients' = CancelledEffect(connected_clients, z.at)
    /\ ev' = [Ev("CancelledTaskRuns", 0, "mon") EXCEPT
                 !.cmd = IF z.at = "send" THEN "PING" ELSE None]
    /\ UNCHANGED collab
    /\ UNCHANGED <<request, response, heard, archive>>
    /\ UNCHANGED <<ping_task, hpc, alive, first_ok, closed_by_handler,
                   auth_reply, who, leaked, mpc, bc, is_listening, tab_launched, cpc>>

(***************************************************************************)
(* WebSocketDictationController: the hotkey coroutine.                     *)
(***************************************************************************)
\* Faulty variant of StartRefused: only the connection is tested.
StartRefusedWhenNoClient(listening, connected) == ~connected

\* The test of line 369: start_dictation returns at once.
StartRefused(listening, connected) == listening \/ ~connected

\* start_dictation up to its first await: the test of line 369, then the
\* flag, the clipboard read into original_clipboard (which nothing reads
\* afterwards: ev.saved keeps what was stored), and the entry into
\* send_command, whose set is not empty.  raises: pyperclip.paste() of line
\* 376 raises; the exception leaves start_dictation with the flag set and
\* nothing sent, and handle_hotkey_async logs it (line 364).  rec: whether ev
\* keeps the call.
StartDictation(h, rec, raises) ==
    IF StartRefused(is_listening, connected_clients # {})
    THEN /\ ev' = IF rec THEN Ev("StartDictation", 0, h) ELSE NoEv
         /\ UNCHANGED <<is_listening, bc, cpc>>
    ELSE IF raises
    THEN /\ is_listening' = TRUE
         /\ ev' = IF rec THEN Ev("StartDictation", 0, h) ELSE NoEv
         /\ UNCHANGED <<bc, cpc>>
    ELSE /\ is_listening' = TRUE
         /\ BeginSend(h, "START_LISTENING")
         /\ cpc' = [cpc EXCEPT ![h] = "start"]
         /\ ev' = IF rec
                  THEN [Ev("StartDictation", 0, h) EXCEPT !.saved = clipboard]
                  ELSE NoEv

\* start_dictation is called while the slot's coroutine is not inside a
\* send_command.
StartDictationCalled(h, raises) ==
    /\ cpc[h] = "idle"
    /\ StartDictation(h, TRUE, raises)
    /\ UNCHANGED collab
    /\ UNCHANGED <<cancelled, request, response, heard, archive>>
    /\ UNCHANGED <<connected_clients, ping_task, hpc, alive, first_ok, closed_by_handler,
                   auth_reply, who, leaked, mpc, tab_launched>>

\* handle_hotkey_async runs up to its first await (raises: see StartDictation).
Hotkey(h, raises) ==
    /\ cpc[h] = "idle"
    /\ IF is_listening
       THEN \* stop_dictation
            /\ is_listening' = FALSE
            /\ IF connected_clients = {}
               THEN \* send_command returns at line 162
                    /\ ev' = Returned("StopDictation", h,
                                      [IdleBc EXCEPT !.cmd = "STOP_LISTENING"],
                                      EmptyReturn)
                    /\ UNCHANGED <<bc, cpc>>
               ELSE /\ BeginSend(h, "STOP_LISTENING")
                    /\ cpc' = [cpc EXCEPT ![h] = "stop"]
                    /\ ev' = NoEv
       ELSE StartDictation(h, FALSE, raises)
    /\ UNCHANGED collab
    /\ UNCHANGED <<cancelled, request, response, heard, archive>>
    /\ UNCHANGED <<connected_clients, ping_task, hpc, alive, first_ok, closed_by_handler,
                   auth_reply, who, leaked, mpc, tab_launched>>

\* The coroutine's send_command returns.  A START_LISTENING that reached
\* nobody resets is_listening and calls launch_persistent_chrome_tab, which
\* returns at once when tab_launched is set and otherwise opens the URL
\* (launched: subprocess.run did not raise).
HotkeyFinish(h, launched) ==
    /\ cpc[h] # "idle"
    /\ bc[h].todo = {}
    /\ LET b == bc[h]
           success == SendCommandReturn(b.sent_count)
           relaunch == cpc[h] = "start" /\ success = 0
       IN  /\ connected_clients' = Pruned(connected_clients, b.disconnected)
           /\ is_listening' = IF relaunch THEN FALSE ELSE is_listening
           /\ tab_launched' = IF relaunch /\ ~tab_launched THEN launched ELSE tab_launched
           /\ launched = TRUE \/ (relaunch /\ ~tab_launched)
           /\ ev' = [Returned("HotkeyFinish", h, b, success) EXCEPT
                        !.launches = IF relaunch /\ ~tab_launched THEN 1 ELSE 0]
    /\ cpc' = [cpc EXCEPT ![h] = "idle"]
    /\ bc' = [bc EXCEPT ![h] = IdleBc]
    /\ UNCHANGED collab
    /\ UNCHANGED <<cancelled, request, response, heard, archive>>
    /\ UNCHANGED <<ping_task, hpc, alive, first_ok, closed_by_handler,
                   auth_reply, who, leaked, mpc>>

(***************************************************************************)
(* RestrictedHTTPHandler.do_GET.  A request target is a string, modelled   *)
(* as the sequence of its characters.                                      *)
(***************************************************************************)
\* 'speech-persistent.html'
BootstrapName ==
    <<"s", "p", "e", "e", "c", "h", "-", "p", "e", "r", "s", "i", "s", "t", "e", "n", "t",
      ".", "h", "t", "m", "l">>

\* The pieces the request targets are put together from.
Chunks ==
    { <<"/">>, BootstrapName, <<"?">>, <<".", ".">>, <<".", "b", "a", "k">>, <<"x">>,
      <<"e", "t", "c", "/", "p", "a", "s", "s", "w", "d">>,
      <<"%", "2", "F">>, <<"%", "3", "F">>, <<"%", "2", "E", "%", "2", "e">>,
      <<"%", "2", "5", "2", "F">>,
      <<"%", "7", "3">> \o Tail(BootstrapName) }

MaxChunks == 3

RECURSIVE Concat(_)
Concat(ss) == IF ss = <<>> THEN <<>> ELSE Head(ss) \o Concat(Tail(ss))

\* What secrets.token_urlsafe can return: letters, digits, '-' and '_'.
UrlTokens == { <<"A">>, <<"a", "9">>, <<"-", "_">>, <<"2", "F", "z">> }

\* '/speech-persistent.html?token=' followed by the token (line 304).
BootstrapUrl(tok) ==
    <<"/">> \o BootstrapName \o <<"?", "t", "o", "k", "e", "n", "=">> \o tok

Paths ==
    { Concat(ss) : ss \in UNION { [1..n -> Chunks] : n \in 1..MaxChunks } }
       \cup { BootstrapUrl(tok) : tok \in UrlTokens }
       \cup { BootstrapUrl(tok) \o <<"/">> : tok \in UrlTokens }
       \cup { <<"/", ".", ".", "/">> \o <<"e", "t", "c", "/", "p", "a", "s", "s", "w", "d">>,
              <<"/", "?">> \o <<"t", "o", "k", "e", "n", "=", "A">> }

\* The two responders of the repository: the one of
\* websocket_dictation_fixed.py and the one of websocket_server.py.
Handlers == {"websocket_dictation_fixed", "websocket_server"}

Requests == [path : Paths, file_present : BOOLEAN, handler : Handlers]

\* The percent escapes that occur in Paths, and the character each stands for.
Escapes ==
    [ e \in { <<"2", "F">>, <<"3", "F">>, <<"2", "E">>, <<"2", "e">>, <<"2", "5">>, <<"7", "3">> } |->
        CASE e = <<"2", "F">> -> "/"
          [] e = <<"3", "F">> -> "?"
          [] e \in { <<"2", "E">>, <<"2", "e">> } -> "."
          [] e = <<"2", "5">> -> "%"
          [] e = <<"7", "3">> -> "s" ]

\* urllib.parse.unquote: every %xx is replaced by the character it encodes,
\* in one pass (what a decoded '%' is followed by is not decoded again).
RECURSIVE unquote(_)
unquote(s) ==
    IF s = <<>> THEN <<>>
    ELSE IF s[1] = "%" /\ Len(s) >= 3 /\ <<s[2], s[3]>> \in DOMAIN Escapes
    THEN <<Escapes[<<s[2], s[3]>>]>> \o unquote(SubSeq(s, 4, Len(s)))
    ELSE <<s[1]>> \o unquote(Tail(s))

RECURSIVE LStripSlashes(_)
LStripSlashes(s) ==
    IF s # <<>> /\ Head(s) = "/" THEN LStripSlashes(Tail(s)) ELSE s

RECURSIVE RStripSlashes(_)
RStripSlashes(s) ==
    IF s # <<>> /\ s[Len(s)] = "/" THEN RStripSlashes(SubSeq(s, 1, Len(s) - 1)) ELSE s

\* str.strip('/')
StripSlashes(s) == RStripSlashes(LStripSlashes(s))

\* str.startswith
StartsWith(s, prefix) ==
    Len(s) >= Len(prefix) /\ SubSeq(s, 1, Len(prefix)) = prefix

\* Faulty variant of Recognized: any name that begins with the bootstrap
\* name is served.
RecognizedByPrefix(path, handler) ==
    path = <<>> \/ StartsWith(path, BootstrapName)

\* The test of line 33; websocket_server.py (line 27) has its first two
\* disjuncts only.
Recognized(path, handler) ==
    \/ path = <<>>
    \/ path = BootstrapName
    \/ /\ handler = "websocket_dictation_fixed"
       /\ StartsWith(path, BootstrapName \o <<"?">>)

\* Lines 42-49: the headers do_GET sends with the file.
FileHeaders ==
    { <<"Content-type", "text/html; charset=utf-8">>,
      <<"Content-Length", "len(content)">>,
      <<"Cache-Control", "no-cache">>,
      <<"X-Content-Type-Options", "nosniff">>,
      <<"X-Frame-Options", "DENY">>,
      <<"Referrer-Policy", "no-referrer">> }

\* do_GET.  file_present: open() of speech-persistent.html next to the
\* script does not raise FileNotFoundError.  A 404 is sent by send_error,
\* with none of the headers of lines 42-49.
do_GET(req) ==
    LET path == StripSlashes(unquote(req.path))
    IN  IF Recognized(path, req.handler) /\ req.file_present
        THEN [status |-> 200, headers |-> FileHeaders, body |-> "speech-persistent.html"]
        ELSE [status |-> 404, headers |-> {},
              body |-> IF Recognized(path, req.handler)
                       THEN "Speech recognition page not found"
                       ELSE "File not found"]

\* The responder answers the request.
HandleGet ==
    /\ request # NoRequest
    /\ response = NoResponse
    /\ response' = do_GET(request)
    /\ UNCHANGED <<connected_clients, ping_task, hpc, alive, first_ok, closed_by_handler,
                   auth_reply, who, leaked, mpc, bc, is_listening, tab_launched, cpc,
                   threads, clipboard, pasted, started, cancelled, request, heard, archive, ev>>

(***************************************************************************)
(* archive/websocket_dictation.py: WebSocketDictationController with its   *)
(* dictation timeout.  A session is one setting of is_listening to True;   *)
(* sessions are numbered in the order they begin.                          *)
(***************************************************************************)
\* The state of the server and controller of websocket_dictation_fixed.py.
channel ==
    <<connected_clients, ping_task, hpc, alive, first_ok, closed_by_handler,
      auth_reply, who, leaked, mpc, bc, is_listening, tab_launched, cpc,
      threads, clipboard, pasted, started, cancelled, request, response, heard, ev>>

\* start_dictation up to its await of send_command (lines 221-238), with a
\* client connected: is_listening is set, and the coroutine is suspended in
\* send_command while other presses of the hotkey are handled.  raises:
\* pyperclip.paste() of line 235 raises inside the try, and line 252 resets
\* is_listening before anything else runs.
ArchiveStartBegin(raises) ==
    /\ ~archive.is_listening
    /\ archive.session < MaxSessions
    /\ archive' = [archive EXCEPT
          !.is_listening = ~raises,
          !.session = @ + 1,
          !.starting = IF raises THEN @ ELSE @ \cup {archive.session + 1}]
    /\ UNCHANGED channel

\* Line 245: asyncio.create_task(self.dictation_timeout_monitor()); the new
\* task sleeps 30; the tasks created by earlier starts are left running.
MonitorsAfterStart(monitors, session, now) ==
    monitors \cup {[session |-> session, due |-> now + Timeout]}

\* send_command returns to the start_dictation of session n (lines 240-248):
\* on success a timeout monitor is created, otherwise is_listening is reset.
ArchiveStartEnd(n, success) ==
    /\ n \in archive.starting
    /\ archive' = [archive EXCEPT
          !.starting = @ \ {n},
          !.is_listening = IF success THEN @ ELSE FALSE,
          !.monitors = IF success
                       THEN MonitorsAfterStart(@, n, archive.now)
                       ELSE @]
    /\ UNCHANGED channel

\* stop_dictation (lines 254-268), called by the hotkey coroutine, by
\* handle_transcript (line 289) or by shutdown: is_listening is reset before
\* its await, and nothing is written after it.
ArchiveStop ==
    /\ archive.is_listening
    /\ archive' = [archive EXCEPT !.is_listening = FALSE]
    /\ UNCHANGED channel

\* dictation_timeout_monitor (lines 319-325): its sleep of 30 is over; it
\* stops dictation if is_listening is set, whichever start set it.
ArchiveTimeout(m) ==
    /\ m \in archive.monitors
    /\ m.due <= archive.now
    /\ archive' = [archive EXCEPT !.monitors = @ \ {m},
                                  !.is_listening = FALSE]
    /\ UNCHANGED channel

\* Time passes, unless a timeout monitor is due.
ArchiveTick ==
    /\ archive.now + ClockStep <= MaxTime
    /\ \A m \in archive.monitors : m.due > archive.now
    /\ archive' = [archive EXCEPT !.now = @ + ClockStep]
    /\ UNCHANGED channel

(***************************************************************************)
(* The specifications.                                                     *)
(***************************************************************************)
\* The steps of the connection handlers, without the hotkey coroutines.
HandlerSteps ==
    \/ \E c \in Conns : Connect(c, "tab")
    \/ \E c \in Conns, m \in FirstMsgs, drop \in BOOLEAN : AuthMessage(c, m, drop)
    \/ \E c \in Conns : AuthReplySent(c)
    \/ \E c \in Conns : AuthCloseDone(c)
    \/ \E c \in Conns, why \in {"AuthTimeout", "AuthClosed"} : AuthRecvRaises(c, why)
    \/ \E c \in Conns : ClientDrop(c)
    \/ \E c \in Conns : LoopEnd(c)
    \/ \E z \in [at : {"sleep", "send"}, pending : {TRUE}] : CancelledTaskRuns(z)

\* The steps of the connection handlers (but the handling of a frame on a
\* registered connection) and of the hotkey coroutines.
CoreQuiet ==
    \/ HandlerSteps
    \/ \E h \in HotkeySlots, c \in Conns : SendStep(h, c)
    \/ \E h \in HotkeySlots, raises \in BOOLEAN : Hotkey(h, raises)
    \/ \E h \in HotkeySlots, launched \in BOOLEAN : HotkeyFinish(h, launched)

\* Every step but the handling of a frame on a registered connection.
Core ==
    \/ CoreQuiet
    \/ \E c \in Conns : SendStep("mon", c)
    \/ MonitorTick
    \/ MonitorFinish

\* The server and the hotkey coroutines; the frames of registered
\* connections are those that start no thread of the controller.
Next ==
    \/ Core
    \/ \E c \in Conns, m \in UnforwardedMsgs, drop \in BOOLEAN : LoopMessage(c, m, drop)
    \/ \E c \in Conns : AckSent(c)

Spec == Init /\ [][Next]_vars

\* The same server, where a connection may also come from a client that was
\* not given the bootstrap URL.
NextOutsider ==
    \/ Next
    \/ \E c \in Conns : Connect(c, "outsider")

SpecOutsider == Init /\ [][NextOutsider]_vars

\* The same server, where a tick of the health monitor may raise.
NextTickErrors ==
    \/ Next
    \/ MonitorTickRaises

SpecTickErrors == Init /\ [][NextTickErrors]_vars

\* The same server, where start_dictation is also called directly, whatever
\* is_listening is.
NextStartCalls ==
    \/ Next
    \/ \E h \in HotkeySlots, raises \in BOOLEAN : StartDictationCalled(h, raises)

SpecStartCalls == Init /\ [][NextStartCalls]_vars

\* The same server with two hotkey coroutines that may overlap (a second
\* press of the hotkey while the first one's broadcast is being sent).
NextHeard ==
    \/ \E c \in Conns : Connect(c, "tab")
    \/ \E c \in Conns, m \in FirstMsgs, drop \in BOOLEAN : AuthMessage(c, m, drop)
    \/ \E c \in Conns : AuthReplySent(c)
    \/ \E c \in Conns : AuthCloseDone(c)
    \/ \E c \in Conns, why \in {"AuthTimeout", "AuthClosed"} : AuthRecvRaises(c, why)
    \/ \E c \in Conns : ClientDrop(c)
    \/ \E c \in Conns : LoopEnd(c)
    \/ \E k \in Callers, c \in Conns : SendStep(k, c)
    \/ \E h \in OverlapSlots, raises \in BOOLEAN : Hotkey(h, raises)
    \/ \E h \in OverlapSlots, launched \in BOOLEAN : HotkeyFinish(h, launched)
    \/ \E z \in [at : {"sleep", "send"}, pending : {TRUE}] : CancelledTaskRuns(z)
    \/ MonitorTick
    \/ MonitorFinish

SpecHeard == Init /\ [][NextHeard]_vars

\* The same server, observed frame by frame: ev keeps each handled frame.
NextFrames ==
    \/ Core
    \/ \E c \in Conns, m \in UnforwardedMsgs, drop \in BOOLEAN :
          LoopMessageObserved(c, m, drop)
    \/ \E c \in Conns : AckSent(c)

SpecFrames == Init /\ [][NextFrames]_vars

\* The server together with the controller's transcript threads, up to
\* MaxTranscripts of them, while the hotkey is not pressed, over runs shorter
\* than the 15 s of the health monitor's first sleep (the monitor task exists
\* but has not woken).
NextTranscripts ==
    \/ HandlerSteps
    \/ \E c \in Conns, m \in LoopMsgs, drop \in BOOLEAN : LoopMessageObserved(c, m, drop)
    \/ \E c \in Conns : AckSent(c)
    \/ \E i \in 1..MaxTranscripts, copied \in BOOLEAN : TranscriptCopy(i, copied)
    \/ \E i \in 1..MaxTranscripts, typed \in BOOLEAN : TranscriptPaste(i, typed)

SpecTranscripts == Init /\ [][NextTranscripts]_vars

\* The server, the hotkey coroutine and the controller's transcript threads,
\* over runs with one transcript that is not blank and shorter than the 15 s
\* of the health monitor's first sleep.
NextDictation ==
    \/ CoreQuiet
    \/ \E c \in Conns, m \in LoopMsgs, drop \in BOOLEAN :
          /\ m \in UnforwardedMsgs \/ started = 0
          /\ LoopMessageObserved(c, m, drop)
    \/ \E c \in Conns : AckSent(c)
    \/ \E i \in 1..MaxTranscripts, copied \in BOOLEAN : TranscriptCopy(i, copied)
    \/ \E i \in 1..MaxTranscripts, typed \in BOOLEAN : TranscriptPaste(i, typed)

SpecDictation == Init /\ [][NextDictation]_vars

\* The event loop runs the health monitor task whenever it can run: its
\* sleep ends after 15 s, and each send of its broadcast returns or raises.
MonitorFair ==
    /\ WF_vars(MonitorTick)
    /\ WF_vars(\E c \in Conns : SendStep("mon", c))
    /\ WF_vars(MonitorFinish)

SpecFramesFair == SpecFrames /\ MonitorFair

\* The archive controller alone, with a client connected throughout.
NextArchive ==
    \/ \E raises \in BOOLEAN : ArchiveStartBegin(raises)
    \/ \E n \in 1..MaxSessions, success \in BOOLEAN : ArchiveStartEnd(n, success)
    \/ ArchiveStop
    \/ \E m \in [session : 1..MaxSessions, due : 0..(MaxTime + Timeout)] : ArchiveTimeout(m)
    \/ ArchiveTick

SpecArchive == Init /\ [][NextArchive]_vars

\* The static responder alone: one GET request, for any of Paths, to either
\* responder, with the bootstrap file present or not.
InitStatic ==
    /\ InitChannel
    /\ request \in Requests
    /\ response = NoResponse

NextStatic == HandleGet

SpecStatic == InitStatic /\ [][NextStatic]_vars

(***************************************************************************)
(* The properties.                                                         *)
(***************************************************************************)
\* The first frame of ev's handshake step is an object that does not
\* authenticate: wrong or missing token, or a type other than AUTH.
BadCredentials(m) ==
    m.kind = "object" /\ ~(m.type = "AUTH" /\ m.token = session_token)

\* C1: a frame of a connection is handed to handle_message only after
\* AUTH_SUCCESS was sent on that connection.
C1_HandledOnlyAfterAuthSuccess ==
    ev.op = "LoopMessage" => auth_reply[ev.conn] = "AUTH_SUCCESS"

C1_Witness ==
    /\ ev.op = "LoopMessage"
    /\ auth_reply[ev.conn] = "AUTH_SUCCESS"
    /\ \E d \in Conns : auth_reply[d] = "AUTH_FAILED"

\* C2: every member of connected_clients is a connection whose first frame
\* was AUTH with the exact session token and whose handler is in its message
\* loop (between two frames, or replying to a READY); a connection whose
\* handshake failed is not a member.
C2_MembersAuthenticated ==
    \A c \in Conns :
        /\ c \in connected_clients => (first_ok[c] /\ hpc[c] \in {"loop", "ack_send"})
        /\ hpc[c] \in {"absent", "auth_recv", "auth_failed_send", "auth_close",
                      "auth_success_send", "rejected", "raised"}
              => c \notin connected_clients

C2_Witness ==
    \E c, d \in Conns :
        /\ c \in connected_clients
        /\ hpc[d] = "rejected"

\* C3: a handshake whose first frame is an object with a wrong token or a type
\* other than AUTH is answered AUTH_FAILED whenever the transport still takes
\* the reply; from there the handler only closes the connection and returns
\* (or ends by the exception of the send, if the client went away during it),
\* and the connection is never registered.  No frame of such a connection is
\* handled afterwards.
C3_BadCredentialsRejected ==
    /\ [](/\ (ev.op = "AuthMessage" /\ BadCredentials(ev.msg)) =>
                /\ hpc[ev.conn] \in {"auth_failed_send", "raised"}
                /\ ev.conn \notin connected_clients
                /\ ev.up => /\ ev.out = <<AuthFailedFrame>>
                            /\ hpc[ev.conn] = "auth_failed_send"
                /\ ~ev.up => ~alive[ev.conn]
          /\ \A c \in Conns :
                /\ hpc[c] \in {"auth_failed_send", "auth_close", "rejected"}
                      => (auth_reply[c] = "AUTH_FAILED" /\ c \notin connected_clients)
                /\ hpc[c] \in {"auth_close", "rejected"} => closed_by_handler[c]
                /\ hpc[c] = "rejected" => ~alive[c]
          /\ ev.op = "LoopMessage" => auth_reply[ev.conn] # "AUTH_FAILED")
    /\ [][ \A c \in Conns :
             /\ hpc[c] = "auth_failed_send"
                   => \/ hpc'[c] \in {"auth_failed_send", "auth_close"}
                      \/ ~alive[c] /\ hpc'[c] = "raised"
             /\ hpc[c] = "auth_close" => hpc'[c] \in {"auth_close", "rejected"}
             /\ hpc[c] = "rejected" => hpc'[c] = "rejected" ]_vars

\* A connection that presented AUTH with another token was answered
\* AUTH_FAILED and closed by the handler, which has returned.
C3_Witness ==
    /\ ev.op = "AuthCloseDone"
    /\ hpc[ev.conn] = "rejected"
    /\ auth_reply[ev.conn] = "AUTH_FAILED"
    /\ closed_by_handler[ev.conn]
    /\ ~alive[ev.conn]
    /\ ~first_ok[ev.conn]
    /\ ev.conn \notin connected_clients

\* C4: a client that was not given the session token out of band is never
\* authenticated, on any of its connections.
C4_OutsiderNeverAuthenticated ==
    \A c \in Conns :
        who[c] = "outsider" =>
            (auth_reply[c] # "AUTH_SUCCESS" /\ c \notin connected_clients)

\* C5: a connection that sends nothing within the authentication window is
\* closed by the handler and is never registered.
C5_TimeoutClosedByHandler ==
    ev.op = "AuthTimeout" =>
        /\ closed_by_handler[ev.conn]
        /\ ev.conn \notin connected_clients
        /\ auth_reply[ev.conn] # "AUTH_SUCCESS"

\* C6: when the first frame is malformed JSON, or an object without the type
\* or the token key, the handler closes the connection (at once, or once its
\* AUTH_FAILED reply is sent) and never registers it.
C6_MalformedFirstFrameClosed ==
    ( /\ ev.op = "AuthMessage"
      /\ ev.up
      /\ \/ ev.msg.kind = "malformed"
         \/ ev.msg.kind = "object" /\ (ev.msg.type = None \/ ev.msg.token = None) )
    => /\ closed_by_handler[ev.conn] \/ hpc[ev.conn] = "auth_failed_send"
       /\ ev.conn \notin connected_clients
       /\ hpc[ev.conn] # "loop"

\* The steps in which a send_command returned, and the sends that succeeded
\* in it.
ReturnOps == {"MonitorFinish", "HotkeyFinish", "StopDictation"}
Succeeded(e) == e.snap \ e.failed

\* C7: send_command on an empty connected_clients (stop_dictation once every
\* client is gone) returns 0 in the same step, with no send attempted and
\* connected_clients, the health-monitor task and every broadcast in progress
\* left as they were.
C7_EmptyBroadcastReturnsZero ==
    [][ (is_listening /\ ~is_listening' /\ connected_clients = {} /\ cpc' = cpc)
        => /\ ev'.op = "StopDictation"
           /\ ev'.ret = 0
           /\ ev'.snap = {}
           /\ \A c \in Conns : ev'.att[c] = 0
           /\ ev'.out = <<>>
           /\ UNCHANGED <<connected_clients, ping_task, mpc, bc, alive, hpc>> ]_vars

C7_Witness ==
    /\ ev.op = "StopDictation"
    /\ ev.ret = 0
    /\ connected_clients = {}
    /\ ping_task = "Task"
    /\ ~is_listening

\* C8: when a broadcast returns, every connection that was in
\* connected_clients when it started got exactly one send attempt (and no
\* other connection got one), and no connection whose send failed is in
\* connected_clients.
C8_BroadcastCompletes ==
    ev.op \in {"MonitorFinish", "HotkeyFinish"} =>
        /\ \A c \in Conns : ev.att[c] = IF c \in ev.snap THEN 1 ELSE 0
        /\ ev.failed \cap connected_clients = {}

C8_Witness ==
    /\ ev.op = "HotkeyFinish"
    /\ ev.failed # {}
    /\ Succeeded(ev) # {}
    /\ Succeeded(ev) \subseteq connected_clients

\* C9, as claimed: send_command returns the number of sends that succeeded.
C9_ReturnsCount ==
    ev.op \in ReturnOps => ev.ret = Cardinality(Succeeded(ev))

\* C9, amended: send_command returns whether any send succeeded: True (1)
\* when at least one did, False (0) when none did; its sent_count is the
\* number of sends that succeeded.
C9_ReturnsWhetherAnySent ==
    ev.op \in ReturnOps =>
        /\ ev.count = Cardinality(Succeeded(ev))
        /\ ev.ret = IF Cardinality(Succeeded(ev)) >= 1 THEN 1 ELSE 0

C9_Witness ==
    /\ ev.op \in ReturnOps
    /\ Cardinality(Succeeded(ev)) = 2
    /\ ev.ret = 1

\* C10: once the handler of a registered connection has ended, the connection
\* is not in connected_clients, in that step and ever after; and if that step
\* leaves the set empty, the health monitor task is cancelled and ping_task
\* is None.
C10_TeardownDeregisters ==
    /\ [](\A c \in Conns : hpc[c] = "closed" => c \notin connected_clients)
    /\ [][ \A c \in Conns :
             (hpc[c] = "loop" /\ hpc'[c] = "closed")
             => /\ c \notin connected_clients'
                /\ connected_clients' = {} => (ping_task' = None /\ mpc' = "none") ]_vars

C10_Witness ==
    \E c, d \in Conns :
        /\ hpc[c] = "closed"
        /\ hpc[d] = "closed"
        /\ c # d
        /\ connected_clients = {}
        /\ ping_task = None

\* C11: whenever a health-monitor task is scheduled (ping_task is not None),
\* connected_clients is non-empty.
C11_MonitorOnlyWhileClients ==
    ping_task # None => connected_clients # {}

\* C12: when the monitor's PING broadcast to a set of exactly one client
\* returns with that send failed, connected_clients is empty and the monitor
\* task has stopped: it is not back at its sleep, waiting for another tick.
C12_LastClientLostStopsMonitor ==
    (ev.op = "MonitorFinish" /\ Cardinality(ev.snap) = 1 /\ ev.failed = ev.snap)
    => /\ connected_clients = {}
       /\ mpc = "none"
       /\ ping_task = None

\* C13: whenever connected_clients is non-empty, ping_task refers to a health
\* monitor task that is running (at its sleep or in its PING broadcast),
\* also when an earlier teardown had cancelled the monitor.
C13_MonitorRunsWhileClients ==
    connected_clients # {} => (ping_task = "Task" /\ mpc \in {"sleep", "send"})

\* The second connection authenticates after the first one, which had been
\* registered, was torn down (its teardown emptied the set and cancelled the
\* monitor).
C13_Witness ==
    \E c, d \in Conns :
        /\ c # d
        /\ hpc[c] = "closed"
        /\ auth_reply[c] = "AUTH_SUCCESS"
        /\ ev.op = "AuthReplySent"
        /\ ev.conn = d
        /\ connected_clients = {d}
        /\ ping_task = "Task"
        /\ mpc = "sleep"

\* The last step handled a PONG frame of connection c.
PongFrom(c) ==
    ev.op = "LoopMessage" /\ ev.conn = c /\ ev.msg.kind = "object" /\ ev.msg.type = "PONG"

\* C14: a connection in connected_clients whose transport accepts sends and
\* which sends no PONG is eventually removed from the set by the health
\* monitor.
C14_UnresponsiveEvicted ==
    \A c \in Conns :
        [](c \in connected_clients
              => <>(c \notin connected_clients \/ ~alive[c] \/ PongFrom(c)))

\* The step handles frame-kind and type of ev'.msg on a registered connection.
HandlesType(e, types) ==
    e.op = "LoopMessage" /\ e.msg.kind = "object" /\ e.msg.type \in types

\* C15: when the handler of an authenticated connection handles a READY
\* (and the transport takes the reply), exactly one ACKNOWLEDGE is sent on
\* that connection, with the connection open and the membership of
\* connected_clients as before; from the send of that reply the handler goes
\* back to its receive loop and nowhere else, again without changing the
\* membership.
C15_ReadyAcknowledged ==
    [][ /\ (HandlesType(ev', {"READY"}) /\ ev'.up)
           => /\ ev'.out = <<Frame("ACKNOWLEDGE")>>
              /\ auth_reply[ev'.conn] = "AUTH_SUCCESS"
              /\ hpc'[ev'.conn] = "ack_send"
              /\ alive'[ev'.conn]
              /\ connected_clients' = connected_clients
        /\ \A c \in Conns :
              hpc[c] = "ack_send"
              => /\ hpc'[c] \in {"ack_send", "loop"}
                 /\ hpc'[c] = "loop" => connected_clients' = connected_clients ]_vars

C15_Witness ==
    /\ HandlesType(ev, {"READY"})
    /\ ev.up
    /\ ev.out = <<Frame("ACKNOWLEDGE")>>
    /\ first_ok[ev.conn]
    /\ ev.conn \in connected_clients

\* t is s without its leading and trailing whitespace.
IsTrimOf(t, s) ==
    /\ \E i, j \in 0..Len(s) :
          /\ i + j <= Len(s)
          /\ t = SubSeq(s, i + 1, Len(s) - j)
          /\ \A k \in 1..i : s[k] = WS
          /\ \A k \in (Len(s) - j + 1)..Len(s) : s[k] = WS
    /\ t # <<>> => (t[1] # WS /\ t[Len(t)] # WS)

\* The text of frame m is missing, empty or whitespace only.
Blank(m) == ~m.has_text \/ \A k \in 1..Len(m.text) : m.text[k] = WS

\* C16: the step that handles a TRANSCRIPT_READY whose text is not blank
\* starts exactly one handle_transcript thread, whose argument is the text
\* without its leading and trailing whitespace; and when that thread copies
\* to the clipboard, the clipboard holds that trimmed text.
C16_TranscriptForwardedTrimmed ==
    /\ [][ (HandlesType(ev', {"TRANSCRIPT_READY"}) /\ ~Blank(ev'.msg))
           => /\ IsTrimOf(ev'.fwd, ev'.msg.text)
              /\ threads' = Append(threads, [arg |-> ev'.fwd, pc |-> "copy",
                                              conn |-> ev'.conn])
              /\ started' = started + 1 ]_vars
    /\ [][ ev'.op = "TranscriptCopy"
           => /\ \E i \in 1..Len(threads) :
                    /\ threads[i].arg = ev'.fwd
                    /\ threads[i].pc = "copy"
                    /\ threads' = [threads EXCEPT ![i].pc = "paste"]
              /\ clipboard' = ev'.fwd
              /\ IsTrimOf(clipboard', ev'.fwd)
              /\ clipboard' # <<>> ]_vars

C16_Witness ==
    /\ ev.op = "TranscriptCopy"
    /\ started = 1
    /\ clipboard = <<"a", WS, "b">>
    /\ Len(threads) = 1
    /\ threads[1].arg = <<"a", WS, "b">>
    /\ threads[1].pc = "paste"

\* C17: once handle_transcript has returned, having copied and pasted its
\* transcript, is_listening is false.
C17_NotListeningAfterTranscript ==
    (ev.op = "TranscriptDone" /\ threads = <<>> /\ Len(pasted) = started)
    => ~is_listening

\* C18: the step that handles a TRANSCRIPT_READY whose text is missing,
\* empty or whitespace only sends nothing, starts no handle_transcript
\* thread, leaves the clipboard and what was pasted alone, and leaves
\* is_listening, connected_clients and the handler's place unchanged.
C18_BlankTranscriptDiscarded ==
    [][ (HandlesType(ev', {"TRANSCRIPT_READY"}) /\ Blank(ev'.msg))
        => /\ ev'.fwd = NoText
           /\ ev'.out = <<>>
           /\ UNCHANGED <<threads, clipboard, pasted, started>>
           /\ UNCHANGED <<is_listening, connected_clients, hpc, ping_task, cpc>>
           /\ ev'.up => alive'[ev'.conn] ]_vars

C18_Witness ==
    /\ HandlesType(ev, {"TRANSCRIPT_READY"})
    /\ ev.msg.has_text
    /\ ev.msg.text = <<WS, WS>>
    /\ ev.up
    /\ is_listening
    /\ ev.conn \in connected_clients
    /\ threads # <<>>

\* The message types handle_message has a branch for.
HandledTypes == {"READY", "TRANSCRIPT_READY"}

\* C19: the step that handles an object of a type handle_message has no
\* branch for sends nothing, forwards nothing, leaves connected_clients and
\* is_listening unchanged, and leaves the handler in its receive loop with
\* the connection open, ready for the next frame.
C19_UnknownTypeIgnored ==
    [][ (ev'.op = "LoopMessage" /\ ev'.msg.kind = "object"
            /\ ev'.msg.type \notin HandledTypes)
        => /\ ev'.out = <<>>
           /\ ev'.fwd = NoText
           /\ UNCHANGED <<threads, clipboard, pasted, started>>
           /\ UNCHANGED <<connected_clients, is_listening, hpc, ping_task, cpc>>
           /\ ev'.up => (alive'[ev'.conn] /\ hpc'[ev'.conn] = "loop") ]_vars

C19_Witness ==
    /\ HandlesType(ev, {"BOGUS"})
    /\ ev.up
    /\ is_listening
    /\ ev.conn \in connected_clients
    /\ alive[ev.conn]

\* C20: the step that handles a frame that is malformed JSON, or JSON that
\* is not an object, sends and forwards nothing, leaves connected_clients as
\* it was, and leaves the handler in its receive loop with the connection
\* open, so that the next frame is handled.
C20_MalformedDropped ==
    [][ (ev'.op = "LoopMessage" /\ ev'.msg.kind \in {"malformed", "nonobject"})
        => /\ ev'.out = <<>>
           /\ ev'.fwd = NoText
           /\ connected_clients' = connected_clients
           /\ hpc' = hpc
           /\ ev'.up => (alive'[ev'.conn] /\ hpc'[ev'.conn] = "loop") ]_vars

C20_Witness ==
    /\ ev.op = "LoopMessage"
    /\ ev.msg.kind = "nonobject"
    /\ ev.up
    /\ ev.conn \in connected_clients
    /\ alive[ev.conn]
    /\ hpc[ev.conn] = "loop"

\* C21: of two different transcripts that arrived on the same connection
\* (threads keeps them in arrival order), the later one is not written to
\* the clipboard before the earlier one is, and is not pasted while the
\* earlier one's handling is still under way.
C21_TranscriptsHandledInArrivalOrder ==
    [][ \A i, j \in 1..Len(threads) :
          (j < i /\ threads[j].conn = threads[i].conn /\ threads[j].arg # threads[i].arg)
          => /\ ~ ( /\ Len(threads') = Len(threads)
                    /\ threads[i].pc = "copy"
                    /\ threads'[i].pc = "paste"
                    /\ threads[j].pc = "copy" )
             /\ ~ ( /\ Len(threads') < Len(threads)
                    /\ threads[i].pc = "paste"
                    /\ threads' = RemoveAt(threads, i) ) ]_vars

\* C22: is_listening is not true while a START_LISTENING broadcast is still
\* in flight (it has not succeeded yet), and a STOP_LISTENING broadcast that
\* reached no client leaves is_listening as it was, which is true.
C22_ListeningFollowsDelivery ==
    /\ \A h \in HotkeySlots : cpc[h] = "start" => ~is_listening
    /\ (ev.op \in {"StopDictation", "HotkeyFinish"}
           /\ ev.cmd = "STOP_LISTENING" /\ ev.ret = 0) => is_listening

\* C23: when a START_LISTENING broadcast returns having reached no client,
\* the controller opens the bootstrap URL exactly once.
C23_RelaunchExactlyOnce ==
    (ev.op = "HotkeyFinish" /\ ev.cmd = "START_LISTENING" /\ ev.ret = 0)
    => ev.launches = 1

\* C24: deregistering a connection that is already out of the set changes
\* nothing and raises nothing, whichever comes second: the handler's finally
\* clause after a pruning or clear, or a broadcast's pruning after the
\* handler's finally clause; and stop_health_monitoring with no task
\* referenced changes nothing.
C24_TeardownIdempotent ==
    /\ [][ \A c \in Conns :
             (hpc[c] = "loop" /\ hpc'[c] = "closed")
             => /\ connected_clients' = connected_clients \ {c}
                /\ c \notin connected_clients => connected_clients' = connected_clients
                /\ ping_task = None => UNCHANGED <<ping_task, mpc, bc>>
                /\ connected_clients' = {} => ping_task' = None ]_vars
    /\ [][ ev'.op = "HotkeyFinish"
           => connected_clients' = connected_clients \ ev'.failed ]_vars
    /\ [][ ev'.op = "MonitorFinish"
           => connected_clients' =
                 IF ev'.ret = 0 THEN {} ELSE connected_clients \ ev'.failed ]_vars

\* A broadcast's pruning removes a connection whose handler has already
\* ended and deregistered it, after the monitor was stopped.
C24_Witness ==
    /\ ev.op = "HotkeyFinish"
    /\ \E c \in ev.failed : hpc[c] = "closed"
    /\ connected_clients = {}
    /\ ping_task = None

\* C25: the membership in connected_clients of a connection whose transport
\* is up changes only by a step of its own handler (its registration or its
\* teardown) or by the pruning of a send to itself that failed; no failure
\* on another connection changes it, and none closes it.
C25_ErrorsIsolated ==
    [][ \A b \in Conns :
          (alive[b] /\ hpc[b] \in {"auth_recv", "auth_success_send", "loop", "ack_send"})
          => /\ ((b \in connected_clients) # (b \in connected_clients'))
                   => (hpc'[b] # hpc[b] \/ b \in ev'.failed)
             /\ ~alive'[b] => \A a \in Conns \ {b} :
                                  hpc'[a] = hpc[a] /\ alive'[a] = alive[a] ]_vars

\* s has p as a contiguous part.
HasSubSeq(s, p) ==
    \E i \in 1..(Len(s) - Len(p) + 1) : SubSeq(s, i, i + Len(p) - 1) = p

AllSlashes(s) == \A i \in 1..Len(s) : s[i] = "/"

\* The decoded target d is a run of slashes, then nothing, the bootstrap
\* name, or (first responder only) the bootstrap name, '?' and anything,
\* then a run of slashes.
AcceptedTarget(d, handler) ==
    \E i, j \in 0..Len(d) :
       /\ i + j <= Len(d)
       /\ AllSlashes(SubSeq(d, 1, i))
       /\ AllSlashes(SubSeq(d, Len(d) - j + 1, Len(d)))
       /\ LET core == SubSeq(d, i + 1, Len(d) - j)
          IN  \/ core = <<>>
              \/ core = BootstrapName
              \/ /\ handler = "websocket_dictation_fixed"
                 /\ StartsWith(core, BootstrapName \o <<"?">>)

\* The request target is '/' or '/speech-persistent.html', as written, with
\* or without a query string.
ExactTarget(p) ==
    \/ p = <<"/">>
    \/ p = <<"/">> \o BootstrapName
    \/ StartsWith(p, <<"/", "?">>)
    \/ StartsWith(p, <<"/">> \o BootstrapName \o <<"?">>)

\* C26 (as amended): every GET is answered 200 or 404, and 200 exactly when
\* the bootstrap file is present and the percent-decoded target, without its
\* leading and trailing slashes, is empty, is the bootstrap name, or (first
\* responder) begins with the bootstrap name followed by '?'; what is served
\* is the bootstrap file.  A target that has '..' in it and no '?', encoded
\* or not, gets 404.
C26_ServedOnlyForBootstrapForms ==
    response # NoResponse
    => /\ response.status \in {200, 404}
       /\ response.status = 200
             <=> /\ request.file_present
                 /\ AcceptedTarget(unquote(request.path), request.handler)
       /\ response.status = 200 => response.body = "speech-persistent.html"
       /\ LET d == unquote(request.path)
          IN  (HasSubSeq(d, <<".", ".">>) /\ ~HasSubSeq(d, <<"?">>)) => response.status = 404

\* C26 (as stated): the response is 200 only if the request target is
\* exactly '/' or '/speech-persistent.html' (with an optional query string).
C26_ServedOnlyForExactPaths ==
    response.status = 200 => ExactTarget(request.path)

\* GET /../etc/passwd was answered with 404, the bootstrap file being there.
C26_Witness ==
    /\ request.path = <<"/", ".", ".", "/", "e", "t", "c", "/", "p", "a", "s", "s", "w", "d">>
    /\ request.file_present
    /\ response.status = 404

\* The headers the contract names besides the content type.
HardeningHeaders ==
    { <<"Cache-Control", "no-cache">>,
      <<"X-Content-Type-Options", "nosniff">>,
      <<"X-Frame-Options", "DENY">>,
      <<"Referrer-Policy", "no-referrer">> }

\* C27: either responder answers GET /speech-persistent.html?token=<token>,
\* for every token, with 200, the bootstrap file, and the no-cache and
\* hardening headers (the file being present).
C27_BootstrapUrlServed ==
    \A tok \in UrlTokens :
       ( /\ request.path = BootstrapUrl(tok)
         /\ request.file_present
         /\ response # NoResponse )
       => /\ response.status = 200
          /\ response.body = "speech-persistent.html"
          /\ HardeningHeaders \subseteq response.headers

\* C28: when a PING broadcast reached nobody and the monitor clears the set,
\* every connection the step removes is one the broadcast's send failed on;
\* a connection that was added while the broadcast was in flight and whose
\* handler is in its message loop is still in the set afterwards.
C28_ClearEvictsOnlyDead ==
    [][ (ev'.op = "MonitorFinish" /\ ev'.ret = 0)
        => /\ (connected_clients \ connected_clients') \subseteq ev'.failed
           /\ \A c \in connected_clients \ ev'.snap :
                 hpc[c] \in {"loop", "ack_send"} => c \in connected_clients' ]_vars

\* C29: whenever a broadcast returns to its caller (a controller command to
\* the hotkey coroutine, a PING to the health monitor), the connections no
\* longer in the set are among those its own sends failed on, and every
\* connection added during the broadcast is still in the set.
C29_NoLostUpdates ==
    [][ ev'.op \in {"HotkeyFinish", "MonitorFinish"}
        => /\ ev'.failed \subseteq ev'.snap
           /\ (connected_clients \ connected_clients') \subseteq ev'.failed
           /\ (connected_clients \ ev'.snap) \subseteq connected_clients' ]_vars

\* The monitor tasks that can still send a PING: the one ping_task refers
\* to, and every cancelled one that is not done once CancelledError has been
\* raised in it.
LiveMonitors ==
    (IF mpc \in {"sleep", "send"} THEN 1 ELSE 0)
       + Cardinality({ z \in cancelled : ~z.pending \/ AfterCancel(z.at) # "done" })

\* C30: at most one monitor task can still send a PING, and it is the one
\* ping_task refers to.
C30_AtMostOneLiveMonitor ==
    /\ LiveMonitors <= 1
    /\ ping_task = None => LiveMonitors = 0

\* The last client left while the monitor's PING broadcast was in flight,
\* and another authenticated before the cancelled task ran: the new task
\* and the cancelled one both exist.
C30_Witness ==
    /\ [at |-> "send", pending |-> TRUE] \in cancelled
    /\ ping_task # None
    /\ mpc = "sleep"
    /\ connected_clients # {}

\* C31: when stop_health_monitoring cancels the monitor during its PING
\* broadcast, the handler that called it ends normally and nothing is left
\* of the broadcast to send; when the cancelled task is resumed it ends,
\* leaving connected_clients and every broadcast as they were; no cancelled
\* task ever goes on running.
C31_CancelInFlightIsSafe ==
    /\ [][ (ping_task # None /\ ping_task' = None /\ mpc = "send")
           => /\ [at |-> "send", pending |-> TRUE] \in cancelled'
              /\ bc'["mon"] = IdleBc
              /\ mpc' = "none"
              /\ \E c \in Conns : hpc[c] = "loop" /\ hpc'[c] = "closed" ]_vars
    /\ [][ ev'.op = "CancelledTaskRuns"
           => /\ connected_clients' = connected_clients
              /\ bc' = bc
              /\ mpc' = mpc
              /\ cancelled' \subseteq cancelled
              /\ Cardinality(cancelled') = Cardinality(cancelled) - 1 ]_vars
    /\ [](\A z \in cancelled : z.pending)

\* A monitor cancelled during its PING broadcast has been resumed and has
\* ended, while a client registered since is in the set.
C31_Witness ==
    /\ ev.op = "CancelledTaskRuns"
    /\ ev.cmd = "PING"
    /\ cancelled = {}
    /\ connected_clients # {}

\* C32: after a tick of the health monitor raised an exception other than a
\* cancellation, the monitor is back at its sleep, from where it performs
\* the next tick; it stays alive until it is cancelled.
C32_LoopContinuesAfterError ==
    /\ ev.op = "MonitorTickRaises" => mpc = "sleep"
    /\ ping_task # None => mpc \in {"sleep", "send"}

\* C33: a call of start_dictation made while is_listening is true or while
\* no client is connected starts no broadcast, stores nothing in
\* original_clipboard, and leaves is_listening, the coroutine and the set of
\* clients as they were.
C33_RefusedStartDoesNothing ==
    [][ (ev'.op = "StartDictation" /\ (is_listening \/ connected_clients = {}))
        => /\ is_listening' = is_listening
           /\ bc' = bc
           /\ cpc' = cpc
           /\ ev'.saved = NoText
           /\ connected_clients' = connected_clients ]_vars

\* start_dictation was called while listening, with a client connected and
\* no broadcast of the controller in flight, and returned at once.
C33_Witness ==
    /\ ev.op = "StartDictation"
    /\ is_listening
    /\ connected_clients # {}
    /\ ev.saved = NoText
    /\ \A h \in HotkeySlots : cpc[h] = "idle" /\ ~bc[h].active

\* C34: whenever is_listening is true and no START_LISTENING broadcast is in
\* flight, some connection in connected_clients was last sent
\* START_LISTENING (and no STOP_LISTENING since).
C34_ListeningHasListener ==
    (is_listening /\ \A h \in OverlapSlots : cpc[h] # "start")
    => \E c \in connected_clients : heard[c] = "START_LISTENING"

\* Caller k's broadcast delivers its command to connection c in this step.
Delivers(k, c) ==
    /\ bc[k].active
    /\ c \in bc[k].todo
    /\ bc'[k].att[c] = bc[k].att[c] + 1
    /\ alive[c]

\* C35: the dictation commands delivered to a client alternate, beginning
\* with START_LISTENING: a START_LISTENING is delivered only to a client
\* whose last dictation command was not START_LISTENING, a STOP_LISTENING
\* only to one whose last was START_LISTENING.
C35_CommandsAlternate ==
    [][ \A k \in OverlapSlots, c \in Conns :
          Delivers(k, c)
          => (bc[k].cmd = "START_LISTENING" <=> heard[c] # "START_LISTENING") ]_vars

\* C36: whenever a handle_transcript thread types Cmd+V, the clipboard holds
\* that thread's own transcript (stripped), so what is pasted is it.
C36_PastedAsItself ==
    [][ \A i \in 1..Len(threads) :
          ( /\ threads[i].pc = "paste"
            /\ threads' = RemoveAt(threads, i)
            /\ Len(pasted') = Len(pasted) + 1 )
          => pasted'[Len(pasted')] = Strip(threads[i].arg) ]_vars

\* C37: when a timeout monitor of the archive controller stops dictation,
\* the session it stops is the one whose start created that monitor.
C37_TimeoutStopsOwnSession ==
    [][ \A m \in archive.monitors :
          ( /\ m \notin archive'.monitors
            /\ archive.is_listening
            /\ ~archive'.is_listening )
          => m.session = archive.session ]_vars

=============================================================================
